---- MODULE Spec2Model ----
(***************************************************************************)
(* MassiveQC/build_features.py: the feature table builder.                 *)
(*                                                                         *)
(* A pandas table is modelled as a record                                  *)
(*    [index |-> row labels, columns |-> column names, data |-> rows]      *)
(* with index and columns sequences (pandas keeps order and allows         *)
(* repeated labels) and data[i][j] the cell of row i and column j.         *)
(* A numeric cell is a natural number or NaN; a cell of an object column   *)
(* (srx, srr) is a string or NA.  An operation that raises returns         *)
(* Raise(kind) instead of a table.                                         *)
(***************************************************************************)
EXTENDS Integers, Sequences, FiniteSets, TLC

VARIABLES
    manifest,   \* the manifest file `input`: NoFile or [columns, rows]
    done_file,  \* Features/done_sample.txt: NoFile or [columns, rows]
    files,      \* the nine parquet files: source name -> NoFile or a table
    pc,         \* position of the main process in build_features
    srr_df,     \* build_features.srr_df
    done_srrs,  \* build_features.done_srrs
    next_task,  \* pool.map: number of tasks handed to workers so far
    worker,     \* pool worker -> the task it is reading (0: idle)
    results,    \* pool.map: task -> Pending, a table, or a raised error
    number_left,\* pool.map: tasks not yet finished (MapResult._number_left)
    map_error,  \* pool.map: the first error a task raised, or None
    overtaken,  \* history: a task finished before one handed out earlier
    arg,        \* the table last passed to aggregate_gene_body_coverage
    df,         \* the value flowing through the method chain
    written,    \* the tables written to Features/features.parquet, in order
    completed   \* the steps of build_features that have succeeded, in order

vars == <<manifest, done_file, files, pc, srr_df, done_srrs, next_task, worker,
          results, number_left, map_error, overtaken, arg, df, written,
          completed>>

-----------------------------------------------------------------------------
(* Bounds of the model. *)

\* Largest metric value a source file holds.
MaxVal == 2
\* Largest number of entries of the completion list.
MaxDone == 3
\* Largest number of lines of the manifest.
MaxManifest == 3

-----------------------------------------------------------------------------
(* Values. *)

\* A missing numeric value (float NaN); every present value is >= 0.
NaN == -1
\* A missing value of an object column.
NA == "NaN"
\* A file that does not exist.
NoFile == [error |-> "FileNotFoundError"]
\* What a failed operation yields.
Raise(kind) == [error |-> kind]
IsError(x) == "error" \in DOMAIN x
\* No table (a variable not yet assigned).
None == [none |-> TRUE]

Range(s) == {s[i] : i \in 1..Len(s)}
IsUnique(s) == \A i, j \in 1..Len(s) : s[i] = s[j] => i = j

RECURSIVE SumSeq(_)
SumSeq(s) == IF s = <<>> THEN 0 ELSE s[1] + SumSeq(Tail(s))

RECURSIVE Flatten(_)
Flatten(ss) == IF ss = <<>> THEN <<>> ELSE ss[1] \o Flatten(Tail(ss))

\* The values of s that are not missing.
Present(s) == SelectSeq(s, LAMBDA v : v # NaN)

-----------------------------------------------------------------------------
(* Configuration tables of the program. *)

THREADS == 3

\* FEATURE_AGG, a dict: its items in insertion order.
FEATURE_AGG_items == <<
    <<"rRNA_pct_reads_mapped", "mean">>,
    <<"too_short", "sum">>,
    <<"num_reads", "sum">>,
    <<"num_multimappers", "sum">>,
    <<"per_alignment", "mean">>,
    <<"reads_MQ0", "sum">>,
    <<"average_quality", "mean">>,
    <<"Percent Reverse", "mean">>,
    <<"percent_utr_bases", "mean">>,
    <<"percent_intronic_bases", "mean">>,
    <<"percent_intergenic_bases", "mean">>,
    <<"percent_mrna_bases", "mean">>,
    <<"median_cv_coverage", "mean">>,
    <<"percent_duplication", "mean">>,
    <<"number_genic_reads", "sum">>,
    <<"percent_genes_on", "mean">>,
    <<"number_junction_reads", "sum">>,
    <<"number_junctions_on", "sum">>,
    <<"gene_body_five_prime", "mean">>,
    <<"gene_body_middle", "mean">>,
    <<"gene_body_three_prime", "mean">> >>

\* FEATURE_AGG.keys()
FEATURE_AGG_keys == [i \in 1..Len(FEATURE_AGG_items) |-> FEATURE_AGG_items[i][1]]

\* FEATURE_AGG[k]
FEATURE_AGG(k) ==
    FEATURE_AGG_items[CHOOSE i \in 1..Len(FEATURE_AGG_items) :
                          FEATURE_AGG_items[i][1] = k][2]

FEATURE_RENAME_items == <<
    <<"rRNA_pct_reads_mapped", "percent_rrna_reads">>,
    <<"too_short", "number_reads_too_short">>,
    <<"num_reads", "number_reads">>,
    <<"num_multimappers", "number_multimapping_reads">>,
    <<"per_alignment", "percent_alignment">>,
    <<"Percent Reverse", "percent_reverse">> >>

\* Mutant: two internal names renamed to the same public name.
FEATURE_RENAME_clash(c) ==
    IF c \in {"num_reads", "too_short"} THEN "number_reads" ELSE c

\* The mapper of DataFrame.rename(columns=FEATURE_RENAME): a name with no
\* entry is kept.
FEATURE_RENAME(c) ==
    IF \E i \in 1..Len(FEATURE_RENAME_items) : FEATURE_RENAME_items[i][1] = c
    THEN FEATURE_RENAME_items[CHOOSE i \in 1..Len(FEATURE_RENAME_items) :
                                  FEATURE_RENAME_items[i][1] = c][2]
    ELSE c

-----------------------------------------------------------------------------
(* pandas operations the program uses. *)

Table(index, columns, data) ==
    [index |-> index, columns |-> columns, data |-> data]

\* A row of n missing numeric values.
NaNRow(n) == [j \in 1..n |-> NaN]

\* The positions of the columns whose name is in the list `names`.
ColumnsAt(t, names) ==
    LET wanted == Range(names)
    IN  SelectSeq([j \in 1..Len(t.columns) |-> j], LAMBDA j : t.columns[j] \in wanted)

\* df[names] raises KeyError unless every name is a column.
HasColumns(t, names) ==
    LET have == Range(t.columns)
    IN  \A k \in 1..Len(names) : names[k] \in have

\* The row of t labelled r (t.index unique).
RowAt(t, r) == t.data[CHOOSE i \in 1..Len(t.index) : t.index[i] = r]

\* Mutant: the row sum with min_count=1 (the sum of no value is missing).
SumAxis1MinCount(t, names) ==
    LET at == ColumnsAt(t, names)
        row(i) == Present([k \in 1..Len(at) |-> t.data[i][at[k]]])
    IN  [i \in 1..Len(t.index) |-> IF row(i) = <<>> THEN NaN ELSE SumSeq(row(i))]

\* df[names].sum(axis=1): per row, the sum of the named cells that are
\* present (skipna=True, min_count=0: the sum of no value is 0).
SumAxis1(t, names) ==
    LET at == ColumnsAt(t, names)
    IN  [i \in 1..Len(t.index) |->
            SumSeq(Present([k \in 1..Len(at) |-> t.data[i][at[k]]]))]

\* df.assign(name=values): replaces the column in place when it exists,
\* appends it otherwise.
Assign(t, name, values) ==
    IF name \in Range(t.columns)
    THEN Table(t.index, t.columns,
               [i \in 1..Len(t.index) |->
                   [j \in 1..Len(t.columns) |->
                       IF t.columns[j] = name THEN values[i] ELSE t.data[i][j]]])
    ELSE Table(t.index, Append(t.columns, name),
               [i \in 1..Len(t.index) |-> Append(t.data[i], values[i])])

\* df.drop(names, axis=1): KeyError unless every name is a column.
Drop(t, names) ==
    IF ~HasColumns(t, names) THEN Raise("KeyError")
    ELSE LET dropped == Range(names)
             keep == SelectSeq([j \in 1..Len(t.columns) |-> j],
                               LAMBDA j : t.columns[j] \notin dropped)
         IN  Table(t.index,
                   [k \in 1..Len(keep) |-> t.columns[keep[k]]],
                   [i \in 1..Len(t.index) |->
                       [k \in 1..Len(keep) |-> t.data[i][keep[k]]]])

\* The labels of s, each once, in order of first appearance.
RECURSIVE Distinct(_)
Distinct(s) ==
    IF s = <<>> THEN <<>>
    ELSE LET front == Distinct(SubSeq(s, 1, Len(s) - 1))
         IN  IF s[Len(s)] \in Range(front) THEN front ELSE Append(front, s[Len(s)])

\* pd.concat(frames, axis=1, sort=False): the frames side by side in the
\* order of the list, rows matched by index label (outer join); a frame
\* without a label contributes missing values.  Frames with the same index
\* are laid side by side as they are; otherwise every index must be unique.
Concat(frames) ==
    LET n == Len(frames)
        same == \A k \in 1..n : frames[k].index = frames[1].index
        index == IF same /\ n > 0 THEN frames[1].index
                 ELSE Distinct(Flatten([k \in 1..n |-> frames[k].index]))
        columns == Flatten([k \in 1..n |-> frames[k].columns])
        part(k, i) ==
            IF same THEN frames[k].data[i]
            ELSE IF index[i] \in Range(frames[k].index)
                 THEN RowAt(frames[k], index[i])
                 ELSE NaNRow(Len(frames[k].columns))
    IN  IF ~same /\ \E k \in 1..n : ~IsUnique(frames[k].index)
        THEN Raise("InvalidIndexError")
        ELSE Table(index, columns,
                   [i \in 1..Len(index) |-> Flatten([k \in 1..n |-> part(k, i)])])

\* Mutant: a filter instead of a reindex: the rows of the table whose label
\* is requested, each once.
ReindexAsFilter(t, labels) ==
    LET keep == SelectSeq([i \in 1..Len(t.index) |-> i],
                          LAMBDA i : t.index[i] \in Range(labels))
    IN  Table([k \in 1..Len(keep) |-> t.index[keep[k]]], t.columns,
              [k \in 1..Len(keep) |-> t.data[keep[k]]])

\* df.reindex(labels): one row per entry of labels, in that order; the row
\* of the table with that label, or missing values.
Reindex(t, labels) ==
    IF ~IsUnique(t.index) THEN Raise("ValueError")
    ELSE Table(labels, t.columns,
               [i \in 1..Len(labels) |->
                   IF labels[i] \in Range(t.index) THEN RowAt(t, labels[i])
                   ELSE NaNRow(Len(t.columns))])

\* left.join(right): a left join on the index.  Every row of left, in order,
\* once per row of right with the same label (in right's order), and once
\* with missing values when right has none.
Join(left, right) ==
    LET matches(i) == SelectSeq([k \in 1..Len(right.index) |-> k],
                                LAMBDA k : right.index[k] = left.index[i])
        rowsOf(i) ==
            IF matches(i) = <<>>
            THEN << <<left.index[i], left.data[i] \o [j \in 1..Len(right.columns) |-> NA]>> >>
            ELSE [m \in 1..Len(matches(i)) |->
                     <<left.index[i], left.data[i] \o right.data[matches(i)[m]]>>]
        rows == Flatten([i \in 1..Len(left.index) |-> rowsOf(i)])
    IN  IF Range(left.columns) \cap Range(right.columns) # {}
        THEN Raise("ValueError")
        ELSE Table([i \in 1..Len(rows) |-> rows[i][1]],
                   left.columns \o right.columns,
                   [i \in 1..Len(rows) |-> rows[i][2]])

\* The sample IDs, in sorted order (groupby sorts its keys).
SortedKeys == <<"S1", "S2">>

\* The column of t named c (the first of that name).
Column(t, c) ==
    LET j == CHOOSE j \in 1..Len(t.columns) :
                 t.columns[j] = c /\ \A h \in 1..(j - 1) : t.columns[h] # c
    IN  [i \in 1..Len(t.index) |-> t.data[i][j]]

\* Mutant: the group sum with min_count=1 (the sum of no value is missing).
AggSumMinCount(values) ==
    IF Present(values) = <<>> THEN NaN ELSE SumSeq(Present(values))

\* GroupBy sum: skipna, min_count=0 (the sum of no value is 0).
AggSum(values) == SumSeq(Present(values))

\* GroupBy mean: the mean of the present values, the rational sum/count;
\* count = 0 is NaN (the mean of no value).
AggMean(values) ==
    [sum |-> SumSeq(Present(values)), count |-> Len(Present(values))]

Agg(how, values) == IF how = "sum" THEN AggSum(values) ELSE AggMean(values)

\* df.groupby(by).agg(items): one row per distinct value of column `by`
\* (rows whose key is missing are dropped, keys sorted), one column per
\* item, in the items' order.
GroupByAgg(t, by, items) ==
    IF by \notin Range(t.columns) THEN Raise("KeyError")
    ELSE IF \E k \in 1..Len(items) : items[k][1] \notin Range(t.columns)
    THEN Raise("KeyError")
    ELSE LET key == Column(t, by)
             keys == SelectSeq(SortedKeys, LAMBDA g : g \in Range(key))
             members(g) == SelectSeq([i \in 1..Len(key) |-> i],
                                     LAMBDA i : key[i] = g)
             values(g, c) == LET col == Column(t, c)
                                 m == members(g)
                             IN  [k \in 1..Len(m) |-> col[m[k]]]
         IN  Table(keys,
                   [k \in 1..Len(items) |-> items[k][1]],
                   [g \in 1..Len(keys) |->
                       [k \in 1..Len(items) |->
                           Agg(items[k][2], values(keys[g], items[k][1]))]])

\* df.loc[:, names]: the named columns, in the order of names; KeyError
\* unless every name is a column.
Loc(t, names) ==
    IF ~HasColumns(t, names) THEN Raise("KeyError")
    ELSE LET at == Flatten([k \in 1..Len(names) |-> ColumnsAt(t, <<names[k]>>)])
         IN  Table(t.index,
                   [k \in 1..Len(at) |-> t.columns[at[k]]],
                   [i \in 1..Len(t.index) |->
                       [k \in 1..Len(at) |-> t.data[i][at[k]]]])

\* df.rename(columns=FEATURE_RENAME)
Rename(t) ==
    Table(t.index, [j \in 1..Len(t.columns) |-> FEATURE_RENAME(t.columns[j])], t.data)

-----------------------------------------------------------------------------
(* aggregate_gene_body_coverage *)

\* range(101)
NPOS == 101
\* the slice bounds of cols[:33], cols[33:68], cols[68:]
CUT1 == 33
CUT2 == 68

\* cols = [f"pos_{i}" for i in range(101)]
cols == [i \in 1..NPOS |-> "pos_" \o ToString(i - 1)]

\* Python's cols[a:b] (0-based, b excluded).
Slice(s, a, b) == SubSeq(s, a + 1, b)

five_prime == Slice(cols, 0, CUT1)
\* Mutant: the middle tertile one position short.
middle_short == Slice(cols, CUT1, CUT2 - 1)
middle == Slice(cols, CUT1, CUT2)
three_prime == Slice(cols, CUT2, Len(cols))

\* One .assign(name=lambda x: x[names].sum(axis=1)) of the chain.
AssignSum(t, name, names) ==
    IF IsError(t) THEN t
    ELSE IF ~HasColumns(t, names) THEN Raise("KeyError")
    ELSE Assign(t, name, SumAxis1(t, names))

\* Mutant: sums the position columns that exist and drops those
\* (errors="ignore").
aggregate_existing(t) ==
    LET have(names) == SelectSeq(names, LAMBDA c : c \in Range(t.columns))
        a == Assign(t, "gene_body_five_prime", SumAxis1(t, have(five_prime)))
        b == Assign(a, "gene_body_middle", SumAxis1(a, have(middle)))
        c == Assign(b, "gene_body_three_prime", SumAxis1(b, have(three_prime)))
    IN  Drop(c, have(cols))

aggregate_gene_body_coverage(t) ==
    LET a == AssignSum(t, "gene_body_five_prime", five_prime)
        b == AssignSum(a, "gene_body_middle", middle)
        c == AssignSum(b, "gene_body_three_prime", three_prime)
    IN  IF IsError(c) THEN c ELSE Drop(c, cols)

-----------------------------------------------------------------------------
(* The inputs of a run: the manifest, the completion list, the nine files. *)

Runs == <<"R1", "R2", "R3">>
Samples == Range(SortedKeys)

\* feature_dict, a dict: its keys in insertion order.
feature_dict == <<"layout", "fastq_screen", "atropos", "hisat2", "aln_stats",
                  "rnaseqmetrics", "genebody_coverage", "markduplicates",
                  "count_summary">>

\* The columns the upstream steps write to each file.
SourceColumns(name) ==
    CASE name = "layout" -> <<"libsize", "avgLen">>
      [] name = "fastq_screen" -> <<"rRNA_pct_reads_mapped">>
      [] name = "atropos" -> <<"total_processed", "too_short">>
      [] name = "hisat2" -> <<"num_reads", "num_multimappers", "per_alignment">>
      [] name = "aln_stats" -> <<"reads_MQ0", "average_quality", "Percent Reverse">>
      [] name = "rnaseqmetrics" ->
            <<"percent_coding_bases", "percent_utr_bases", "percent_intronic_bases",
              "percent_intergenic_bases", "percent_mrna_bases", "median_cv_coverage">>
      [] name = "genebody_coverage" -> cols
      [] name = "markduplicates" -> <<"percent_duplication">>
      [] name = "count_summary" ->
            <<"number_genic_reads", "percent_genes_on", "number_junction_reads",
              "number_junctions_on">>

PosColumns == Range(cols)

RunNo(r) == CHOOSE i \in 1..Len(Runs) : Runs[i] = r

\* A data set: which runs each file lacks, which cells are missing in the
\* rows it has, which columns and files are absent, the coverage level.
DataSet(lack, nan, absent, nofile, level) ==
    [lack |-> lack, nan |-> nan, absent |-> absent, nofile |-> nofile, level |-> level]

NoLack == [n \in Range(feature_dict) |-> {}]

\* The cell of run r in column c, the jth of its file: coverage columns
\* hold the level, the jth other column 10, 20, 30 for R1, R2, R3, plus
\* j - 1.
CellOf(d, r, c, j) ==
    IF <<r, c>> \in d.nan THEN NaN
    ELSE IF c \in PosColumns THEN d.level
    ELSE 10 * RunNo(r) + (j - 1)

\* The file of source `name` in data set d: indexed by run ID, one row per
\* run (a unique index).
SourceFile(d, name) ==
    IF name \in d.nofile THEN NoFile
    ELSE LET runs == SelectSeq(Runs, LAMBDA r : r \notin d.lack[name])
             all == SourceColumns(name)
             at == SelectSeq([j \in 1..Len(all) |-> j], LAMBDA j : all[j] \notin d.absent)
         IN  Table(runs, [k \in 1..Len(at) |-> all[at[k]]],
                   [i \in 1..Len(runs) |->
                       [k \in 1..Len(at) |-> CellOf(d, runs[i], all[at[k]], at[k])]])

SourceFiles(d) == [n \in Range(feature_dict) |-> SourceFile(d, n)]

\* Sequences over S of length at most n.
SeqsUpTo(S, n) == UNION {[1..k -> S] : k \in 0..n}

\* A text file read by pd.read_table: the header names and the data lines.
TextFile(columns, rows) == [columns |-> columns, rows |-> rows]

\* Manifests of two columns (sample, run) and of one column (run).
GroupedManifests ==
    {TextFile(<<"sample", "run">>, rows) :
        rows \in SeqsUpTo(Samples \X Range(Runs), MaxManifest)}
UngroupedManifests ==
    {TextFile(<<"run">>, [i \in 1..Len(rs) |-> <<rs[i]>>]) :
        rs \in SeqsUpTo(Range(Runs), MaxManifest)}
\* Manifests of three columns, with and without a column named srr.
WideManifests ==
    {TextFile(<<"srx", h, "note">>, << <<"S1", "R1", "x">>, <<"S2", "R2", "y">> >>) :
        h \in {"srr", "run"}}

DoneFile(srrs) == TextFile(<<"srr">>, [i \in 1..Len(srrs) |-> <<srrs[i]>>])
DoneFiles == {DoneFile(srrs) : srrs \in SeqsUpTo(Range(Runs), MaxDone)}
\* A completion list without a column named srr.
BadDoneFile == TextFile(<<"run">>, << <<"R1">> >>)

\* The manifest and completion list of the scenario: R1, R2 of sample S1,
\* R3 of sample S2, all three complete.
ScenarioManifest ==
    TextFile(<<"sample", "run">>, << <<"S1", "R1">>, <<"S1", "R2">>, <<"S2", "R3">> >>)
ScenarioDone == DoneFile(<<"R1", "R2", "R3">>)
\* Every file has R1 and R2 and lacks R3.
ScenarioData == DataSet([n \in Range(feature_dict) |-> {"R3"}], {}, {}, {}, 1)

FullData(level) == DataSet(NoLack, {}, {}, {}, level)

FewData ==
    {ScenarioData}
    \cup {FullData(0), FullData(MaxVal)}
    \cup {DataSet([NoLack EXCEPT !["genebody_coverage"] = {"R2"},
                          !["markduplicates"] = {"R2"}], {}, {}, {}, 1),
          DataSet([NoLack EXCEPT !["hisat2"] = Range(Runs)],
                  {<<"R1", "percent_duplication">>}, {}, {}, MaxVal),
          DataSet(NoLack, {<<"R1", "num_reads">>} \cup {<<"R3", c>> : c \in Range(cols)},
                  {}, {}, 1)}

\* Data sets that lack a file or a column.
BrokenData ==
    {DataSet(NoLack, {}, {}, {n}, 1) : n \in {"layout", "hisat2", "count_summary"}}
    \cup {DataSet(NoLack, {}, {}, {"atropos", "markduplicates"}, 1)}
    \cup {DataSet(NoLack, {}, a, {}, 1) :
            a \in {{"num_reads"}, {"pos_50"}, Range(cols), {"percent_genes_on"}}}

FewManifests ==
    {ScenarioManifest,
     TextFile(<<"sample", "run">>, << <<"S1", "R1">>, <<"S2", "R1">>, <<"S2", "R2">> >>),
     TextFile(<<"sample", "run">>, << <<"S2", "R3">>, <<"S1", "R2">> >>),
     TextFile(<<"run">>, << <<"R1">>, <<"R2">>, <<"R3">> >>),
     TextFile(<<"run">>, << <<"R2">>, <<"R2">> >>)}

Input(m, d, f) == [manifest |-> m, done_file |-> d, files |-> f]

\* Every manifest with the scenario's data, every completion list with a
\* few manifests and data sets, and the inputs a run fails on.
FailingInputs ==
    {Input(NoFile, ScenarioDone, SourceFiles(ScenarioData)),
     Input(ScenarioManifest, NoFile, SourceFiles(ScenarioData)),
     Input(ScenarioManifest, BadDoneFile, SourceFiles(ScenarioData))}
    \cup {Input(m, ScenarioDone, SourceFiles(d)) :
            m \in {ScenarioManifest, TextFile(<<"run">>, << <<"R1">>, <<"R2">> >>)},
            d \in BrokenData}
    \cup {Input(m, ScenarioDone, SourceFiles(ScenarioData)) : m \in WideManifests}

InputsData ==
    {Input(m, ScenarioDone, SourceFiles(ScenarioData)) :
        m \in GroupedManifests \cup UngroupedManifests}
    \cup {Input(m, DoneFile(<<"R2", "R1", "R2">>), SourceFiles(FullData(MaxVal))) :
            m \in GroupedManifests \cup UngroupedManifests}
    \cup {Input(m, d, SourceFiles(x)) : m \in FewManifests, d \in DoneFiles, x \in FewData}
    \cup FailingInputs

\* The inputs under which the pool's interleavings are explored.
InputsPool ==
    {Input(m, ScenarioDone, SourceFiles(x)) :
        m \in {ScenarioManifest, TextFile(<<"run">>, << <<"R3">>, <<"R1">> >>)},
        x \in {ScenarioData, FullData(MaxVal)}}
    \cup FailingInputs

-----------------------------------------------------------------------------
(* build_features and workflow_data, step by step. *)

Idle == [w \in 1..THREADS |-> 0]
Pending == [pending |-> TRUE]
NTasks == Len(feature_dict)

Start(inputs) ==
    /\ \E inp \in inputs :
          /\ manifest = inp.manifest
          /\ done_file = inp.done_file
          /\ files = inp.files
    /\ pc = "read_manifest"
    /\ srr_df = None /\ done_srrs = <<>>
    /\ next_task = 0 /\ worker = Idle
    /\ results = [k \in 1..NTasks |-> Pending]
    /\ number_left = NTasks /\ map_error = None /\ overtaken = FALSE
    /\ arg = None /\ df = None
    /\ written = <<>> /\ completed = <<>>

\* Mutant: an error is swallowed and the chain goes on.
GotoSwallowing(step, v, next) ==
    /\ pc' = next
    /\ completed' = Append(completed, step)

\* The step at pc yields value v: go on to `next`, or fail when v is an error.
Goto(step, v, next) ==
    /\ pc' = IF IsError(v) THEN "failed" ELSE next
    /\ completed' = IF IsError(v) THEN completed ELSE Append(completed, step)

\* srr_df = pd.read_table(input), the columns named by their number, then
\* set_index("srr", drop=False).
read_manifest(file) ==
    IF IsError(file) THEN file
    ELSE LET n == Len(file.columns)
             columns == IF n = 1 THEN <<"srr">>
                        ELSE IF n = 2 THEN <<"srx", "srr">>
                        ELSE file.columns
             frame == Table([i \in 1..Len(file.rows) |-> i - 1], columns, file.rows)
         IN  IF "srr" \notin Range(columns) THEN Raise("KeyError")
             ELSE Table(Column(frame, "srr"), columns, file.rows)

ReadManifest ==
    /\ pc = "read_manifest"
    /\ srr_df' = read_manifest(manifest)
    /\ Goto("read_manifest", srr_df', "read_done")
    /\ UNCHANGED <<manifest, done_file, files, done_srrs, next_task, worker,
                   results, number_left, map_error, overtaken, arg, df, written>>

\* done_srrs = pd.read_table(done_sample_file)["srr"].values.tolist()
read_done(file) ==
    IF IsError(file) THEN file
    ELSE IF "srr" \notin Range(file.columns) THEN Raise("KeyError")
    ELSE [values |-> Column(Table([i \in 1..Len(file.rows) |-> i - 1],
                                  file.columns, file.rows), "srr")]

ReadDone ==
    /\ pc = "read_done"
    /\ LET v == read_done(done_file)
       IN  /\ done_srrs' = IF IsError(v) THEN done_srrs ELSE v.values
           /\ Goto("read_done", v, "pool_map")
    /\ UNCHANGED <<manifest, done_file, files, srr_df, next_task, worker,
                   results, number_left, map_error, overtaken, arg, df, written>>

\* The mode: build_features groups by sample when srr_df has two columns.
Grouped == Len(srr_df.columns) = 2

\* pd.read_parquet(path): the table of the file, or the error of a file
\* that does not exist.
read_parquet(name) == files[name]

\* pool.map hands the paths out: the tasks, in the order of feature_dict.
PoolMap ==
    /\ pc = "pool_map"
    /\ pc' = "pool_wait"
    /\ UNCHANGED <<manifest, done_file, files, srr_df, done_srrs, next_task,
                   worker, results, number_left, map_error, overtaken, arg, df, written,
                   completed>>

\* An idle worker takes the next task of the queue (9 tasks, 3 workers:
\* pool.map hands the tasks out one at a time).
WorkerTake(w) ==
    /\ pc = "pool_wait"
    /\ worker[w] = 0
    /\ next_task < NTasks
    /\ next_task' = next_task + 1
    /\ worker' = [worker EXCEPT ![w] = next_task + 1]
    /\ UNCHANGED <<manifest, done_file, files, pc, srr_df, done_srrs, results,
                   number_left, map_error, overtaken, arg, df, written, completed>>

\* Mutant: the results in order of completion.
ResultSlotByCompletion(task, nth) == nth

\* The slot of pool.map's result list that the task finishing as the
\* nth fills: its own.
ResultSlot(task, nth) == task

\* A worker finishes its read and returns the table (or the error) to the
\* main process, which stores it at the task's place in the result list and
\* keeps the first error.
WorkerFinish(w) ==
    LET task == worker[w]
        value == read_parquet(feature_dict[task])
    IN  /\ pc = "pool_wait"
        /\ task # 0
        /\ results' = [results EXCEPT
                          ![ResultSlot(task, NTasks - number_left + 1)] = value]
        /\ number_left' = number_left - 1
        /\ map_error' = IF IsError(value) /\ map_error = None THEN value
                        ELSE map_error
        /\ overtaken' = (overtaken \/ \E v \in 1..THREADS : worker[v] # 0 /\ worker[v] < task)
        /\ worker' = [worker EXCEPT ![w] = 0]
        /\ UNCHANGED <<manifest, done_file, files, pc, srr_df, done_srrs,
                       next_task, arg, df, written, completed>>

\* pool.map returns once every task has finished: the list of the tables,
\* or the first error raised.
MapReturn ==
    /\ pc = "pool_wait"
    /\ number_left = 0
    /\ Goto("pool_map", map_error, "concat")
    /\ UNCHANGED <<manifest, done_file, files, srr_df, done_srrs, next_task,
                   worker, results, number_left, map_error, overtaken, arg, df,
                   written>>

\* pd.concat(..., axis=1, sort=False).rename_axis("srr")
ConcatStep ==
    /\ pc = "concat"
    /\ df' = Concat(results)
    /\ Goto("concat", df', "reindex")
    /\ UNCHANGED <<manifest, done_file, files, srr_df, done_srrs, next_task,
                   worker, results, number_left, map_error, overtaken, arg, written>>

\* .reindex(srrs); pool.close(); return df
ReindexStep ==
    /\ pc = "reindex"
    /\ df' = Reindex(df, done_srrs)
    /\ Goto("reindex", df', "join")
    /\ UNCHANGED <<manifest, done_file, files, srr_df, done_srrs, next_task,
                   worker, results, number_left, map_error, overtaken, arg, written>>

\* .join(srr_df)
JoinStep ==
    /\ pc = "join"
    /\ df' = Join(df, srr_df)
    /\ Goto("join", df', "reduce")
    /\ UNCHANGED <<manifest, done_file, files, srr_df, done_srrs, next_task,
                   worker, results, number_left, map_error, overtaken, arg, written>>

\* .pipe(aggregate_gene_body_coverage)
ReduceStep ==
    /\ pc = "reduce"
    /\ arg' = df
    /\ df' = aggregate_gene_body_coverage(df)
    /\ Goto("reduce", df', IF Grouped THEN "aggregate" ELSE "select")
    /\ UNCHANGED <<manifest, done_file, files, srr_df, done_srrs, next_task,
                   worker, results, number_left, map_error, overtaken, written>>

\* .groupby("srx").agg(FEATURE_AGG)
AggregateStep ==
    /\ pc = "aggregate"
    /\ df' = GroupByAgg(df, "srx", FEATURE_AGG_items)
    /\ Goto("aggregate", df', "rename")
    /\ UNCHANGED <<manifest, done_file, files, srr_df, done_srrs, next_task,
                   worker, results, number_left, map_error, overtaken, arg, written>>

\* .loc[:, FEATURE_AGG.keys()]
SelectStep ==
    /\ pc = "select"
    /\ df' = Loc(df, FEATURE_AGG_keys)
    /\ Goto("select", df', "rename")
    /\ UNCHANGED <<manifest, done_file, files, srr_df, done_srrs, next_task,
                   worker, results, number_left, map_error, overtaken, arg, written>>

\* .rename(columns=FEATURE_RENAME)
RenameStep ==
    /\ pc = "rename"
    /\ df' = Rename(df)
    /\ Goto("rename", df', "write")
    /\ UNCHANGED <<manifest, done_file, files, srr_df, done_srrs, next_task,
                   worker, results, number_left, map_error, overtaken, arg, written>>

\* .to_parquet(Features / "features.parquet")
WriteStep ==
    /\ pc = "write"
    /\ written' = Append(written, df)
    /\ pc' = "done"
    /\ completed' = Append(completed, "write")
    /\ UNCHANGED <<manifest, done_file, files, srr_df, done_srrs, next_task,
                   worker, results, number_left, map_error, overtaken, arg, df>>

Chain ==
    \/ ReadManifest \/ ReadDone
    \/ ConcatStep \/ ReindexStep \/ JoinStep \/ ReduceStep
    \/ AggregateStep \/ SelectStep \/ RenameStep \/ WriteStep

Init == Start(InputsPool)

Next ==
    \/ Chain
    \/ PoolMap
    \/ \E w \in 1..THREADS : WorkerTake(w)
    \/ \E w \in 1..THREADS : WorkerFinish(w)
    \/ MapReturn

Spec == Init /\ [][Next]_vars

\* pool.map as a whole: the tables in the order of the tasks, or the error
\* of the first task in that order that fails.
PoolMapWhole ==
    /\ pc = "pool_map"
    /\ next_task' = NTasks
    /\ number_left' = 0
    /\ results' = [k \in 1..NTasks |-> read_parquet(feature_dict[k])]
    /\ map_error' = IF \E k \in 1..NTasks : IsError(results'[k])
                    THEN results'[CHOOSE k \in 1..NTasks :
                                      /\ IsError(results'[k])
                                      /\ \A h \in 1..(k - 1) : ~IsError(results'[h])]
                    ELSE None
    /\ Goto("pool_map", map_error', "concat")
    /\ UNCHANGED <<manifest, done_file, files, srr_df, done_srrs, worker,
                   overtaken, arg, df, written>>

InitData == Start(InputsData)

NextData == Chain \/ PoolMapWhole

SpecData == InitData /\ [][NextData]_vars

-----------------------------------------------------------------------------
(* The reducer on its own: aggregate_gene_body_coverage applied to a table *)
(* and then to its own result.                                             *)

\* A coverage curve: the 101 position values of one run.
AllAt(v) == [p \in 1..NPOS |-> v]
UnitAt(q) == [p \in 1..NPOS |-> IF p = q THEN 1 ELSE 0]
HoleAt(q) == [p \in 1..NPOS |-> IF p = q THEN NaN ELSE 1]
OnlyAt(q) == [p \in 1..NPOS |-> IF p = q THEN MaxVal ELSE NaN]

Curves ==
    {AllAt(v) : v \in 0..MaxVal} \cup {AllAt(NaN)}
    \cup {UnitAt(q) : q \in 1..NPOS} \cup {HoleAt(q) : q \in 1..NPOS}
    \cup {OnlyAt(q) : q \in 1..NPOS}

\* The sets of position columns a table may lack.
AbsentSets ==
    {{}, Range(cols), Range(five_prime), Range(middle), Range(three_prime)}
    \cup {{cols[q]} : q \in {1, CUT1, CUT1 + 1, CUT2, CUT2 + 1, NPOS}}

\* A table of the given curves, with two columns that are not position
\* columns around them, lacking the position columns in `absent`.
CovTable(curves, absent) ==
    LET keep == SelectSeq([p \in 1..NPOS |-> p], LAMBDA p : cols[p] \notin absent)
    IN  Table([i \in 1..Len(curves) |-> "R" \o ToString(i)],
              <<"num_reads">> \o [k \in 1..Len(keep) |-> cols[keep[k]]] \o <<"srx">>,
              [i \in 1..Len(curves) |->
                  <<10 * i>> \o [k \in 1..Len(keep) |-> curves[i][keep[k]]] \o <<"S1">>])

CovTables ==
    {CovTable(<<c>>, {}) : c \in Curves}
    \cup {CovTable(<<c>>, a) :
            c \in {AllAt(1), AllAt(NaN), UnitAt(CUT1), HoleAt(CUT2)}, a \in AbsentSets}
    \cup {CovTable(<<c, d>>, {}) : c \in Curves, d \in {AllAt(NaN), AllAt(1)}}

InitCov ==
    /\ df \in CovTables
    /\ pc = "cov_call"
    /\ arg = None
    /\ manifest = NoFile /\ done_file = NoFile /\ files = <<>>
    /\ srr_df = None /\ done_srrs = <<>>
    /\ next_task = 0 /\ worker = Idle /\ results = <<>>
    /\ number_left = 0 /\ map_error = None /\ overtaken = FALSE
    /\ written = <<>> /\ completed = <<>>

\* df.pipe(aggregate_gene_body_coverage)
CovCall ==
    /\ pc = "cov_call"
    /\ arg' = df
    /\ df' = aggregate_gene_body_coverage(df)
    /\ pc' = IF IsError(df') THEN "failed" ELSE "cov_again"
    /\ UNCHANGED <<manifest, done_file, files, srr_df, done_srrs, next_task,
                   worker, results, number_left, map_error, overtaken, written,
                   completed>>

\* The reducer applied to its own result.
CovAgain ==
    /\ pc = "cov_again"
    /\ arg' = df
    /\ df' = aggregate_gene_body_coverage(df)
    /\ pc' = IF IsError(df') THEN "failed" ELSE "cov_twice"
    /\ UNCHANGED <<manifest, done_file, files, srr_df, done_srrs, next_task,
                   worker, results, number_left, map_error, overtaken, written,
                   completed>>

NextCov == CovCall \/ CovAgain

SpecCov == InitCov /\ [][NextCov]_vars

-----------------------------------------------------------------------------
(* What the claims are stated in: the inputs and the written table. *)

PosName(p) == "pos_" \o ToString(p)
PosNames(lo, hi) == {PosName(p) : p \in lo..hi}
AllPos == PosNames(0, 100)
FivePrimePos == PosNames(0, 32)
MiddlePos == PosNames(33, 67)
ThreePrimePos == PosNames(68, 100)

\* The cell of row i of t in the column named c.
CellAt(t, i, c) == t.data[i][CHOOSE j \in 1..Len(t.columns) : t.columns[j] = c]

HasAllPos(t) == AllPos \subseteq Range(t.columns)
HasSomePos(t) == AllPos \cap Range(t.columns) # {}

\* The sum of the values of row i of t present in those of the columns
\* `names` that t has.
SumPos(t, i, names) ==
    SumSeq([j \in 1..Len(t.columns) |->
               IF t.columns[j] \in names /\ t.data[i][j] # NaN
               THEN t.data[i][j] ELSE 0])

Tertiles == <<"gene_body_five_prime", "gene_body_middle", "gene_body_three_prime">>

\* The columns of t that are no position columns, in order.
OtherColumns(t) == SelectSeq(t.columns, LAMBDA c : c \notin AllPos)

\* C1: for every table with all 101 columns pos_0..pos_100 the reducer
\* returns a table, and in every row gene_body_five_prime is the sum of the
\* present values of pos_0..pos_32, gene_body_middle that of pos_33..pos_67,
\* gene_body_three_prime that of pos_68..pos_100, so the three add up to the
\* sum of all 101 (a row of all 1 gives 33, 35, 33); no pos_i column is in
\* the result, and every other column is passed through unchanged.
C1_TertileSums ==
    (pc # "cov_call" /\ HasAllPos(arg)) =>
        /\ ~IsError(df)
        /\ df.index = arg.index
        /\ df.columns = OtherColumns(arg) \o Tertiles
        /\ ~HasSomePos(df)
        /\ \A i \in 1..Len(arg.index) :
              /\ CellAt(df, i, "gene_body_five_prime") = SumPos(arg, i, FivePrimePos)
              /\ CellAt(df, i, "gene_body_middle") = SumPos(arg, i, MiddlePos)
              /\ CellAt(df, i, "gene_body_three_prime") = SumPos(arg, i, ThreePrimePos)
              /\ CellAt(df, i, "gene_body_five_prime") + CellAt(df, i, "gene_body_middle")
                     + CellAt(df, i, "gene_body_three_prime") = SumPos(arg, i, AllPos)
              /\ (\A j \in 1..Len(arg.columns) :
                      arg.columns[j] \in AllPos => arg.data[i][j] = 1) =>
                     <<CellAt(df, i, "gene_body_five_prime"),
                       CellAt(df, i, "gene_body_middle"),
                       CellAt(df, i, "gene_body_three_prime")>> = <<33, 35, 33>>
              /\ \A c \in Range(OtherColumns(arg)) : CellAt(df, i, c) = CellAt(arg, i, c)

\* A table of two rows, the first all 1, reduced to 33, 35, 33.
C1_Witness ==
    /\ pc = "cov_again"
    /\ Len(arg.index) = 2
    /\ \A p \in 0..100 : CellAt(arg, 1, PosName(p)) = 1
    /\ CellAt(arg, 2, "pos_0") = NaN
    /\ CellAt(df, 1, "gene_body_middle") = 35
    /\ CellAt(df, 1, "num_reads") = 10

\* C8 as claimed: with some but not all of pos_0..pos_100 present the
\* reducer still returns the three derived columns, each the sum of the
\* columns of its tertile that exist; with none of them it fails.
C8_ToleratesPartialAbsence ==
    pc # "cov_call" =>
        /\ (HasSomePos(arg) /\ ~HasAllPos(arg)) =>
              /\ ~IsError(df)
              /\ \A i \in 1..Len(arg.index) :
                    /\ CellAt(df, i, "gene_body_five_prime") = SumPos(arg, i, FivePrimePos)
                    /\ CellAt(df, i, "gene_body_middle") = SumPos(arg, i, MiddlePos)
                    /\ CellAt(df, i, "gene_body_three_prime") = SumPos(arg, i, ThreePrimePos)
        /\ ~HasSomePos(arg) => IsError(df)

\* C8, amended: the reducer fails with a missing-column error whenever at
\* least one of pos_0..pos_100 is missing from its input, be it one column,
\* a tertile, or all of them as on its own output; it never returns a table
\* then, and it returns one when all 101 are there.
C8_FailsOnAnyAbsence ==
    /\ pc # "cov_twice"
    /\ pc # "cov_call" =>
          IF HasAllPos(arg) THEN ~IsError(df) /\ pc = "cov_again"
          ELSE df = Raise("KeyError") /\ pc = "failed"

\* A table that lacks only some position columns, and the error.
C8_Witness ==
    /\ pc = "failed"
    /\ HasSomePos(arg) /\ ~HasAllPos(arg)
    /\ df = Raise("KeyError")

-----------------------------------------------------------------------------
(* The claims about build_features, stated on its inputs and its output. *)

\* The feature catalog as specified: internal name, public name, function.
PublicCatalog == {
    <<"rRNA_pct_reads_mapped", "percent_rrna_reads", "mean">>,
    <<"too_short", "number_reads_too_short", "sum">>,
    <<"num_reads", "number_reads", "sum">>,
    <<"num_multimappers", "number_multimapping_reads", "sum">>,
    <<"per_alignment", "percent_alignment", "mean">>,
    <<"reads_MQ0", "reads_MQ0", "sum">>,
    <<"average_quality", "average_quality", "mean">>,
    <<"Percent Reverse", "percent_reverse", "mean">>,
    <<"percent_utr_bases", "percent_utr_bases", "mean">>,
    <<"percent_intronic_bases", "percent_intronic_bases", "mean">>,
    <<"percent_intergenic_bases", "percent_intergenic_bases", "mean">>,
    <<"percent_mrna_bases", "percent_mrna_bases", "mean">>,
    <<"median_cv_coverage", "median_cv_coverage", "mean">>,
    <<"percent_duplication", "percent_duplication", "mean">>,
    <<"number_genic_reads", "number_genic_reads", "sum">>,
    <<"percent_genes_on", "percent_genes_on", "mean">>,
    <<"number_junction_reads", "number_junction_reads", "sum">>,
    <<"number_junctions_on", "number_junctions_on", "sum">>,
    <<"gene_body_five_prime", "gene_body_five_prime", "mean">>,
    <<"gene_body_middle", "gene_body_middle", "mean">>,
    <<"gene_body_three_prime", "gene_body_three_prime", "mean">> }

PublicNames == {f[2] : f \in PublicCatalog}
SumFeatures == {f \in PublicCatalog : f[3] = "sum"}
\* The mean features read from a file (the tertiles are computed).
MeanMetrics == {f \in PublicCatalog : f[3] = "mean" /\ f[1] \notin Range(Tertiles)}
\* The columns the files must hold for the catalog to be produced.
RequiredColumns == ({f[1] : f \in PublicCatalog} \ Range(Tertiles)) \cup AllPos

\* The columns of the files that exist.
FileColumns ==
    UNION {Range(files[n].columns) :
              n \in {n \in Range(feature_dict) : ~IsError(files[n])}}

TwoColumns == ~IsError(manifest) /\ Len(manifest.columns) = 2
Out == written[1]

\* The value the files hold for run r in column c: missing when the file
\* with that column has no row for r.
InputValue(r, c) ==
    LET f == files[CHOOSE n \in Range(feature_dict) : c \in Range(files[n].columns)]
    IN  IF r \in Range(f.index)
        THEN CellAt(f, CHOOSE i \in 1..Len(f.index) : f.index[i] = r, c)
        ELSE NaN

\* The sum of run r's present coverage values in the columns `names`.
InputCoverage(r, names) ==
    LET f == files["genebody_coverage"]
    IN  IF r \in Range(f.index)
        THEN SumPos(f, CHOOSE i \in 1..Len(f.index) : f.index[i] = r, names)
        ELSE 0

CoverageMissing(r) ==
    LET f == files["genebody_coverage"]
    IN  \/ r \notin Range(f.index)
        \/ \A j \in 1..Len(f.columns) :
               f.data[CHOOSE i \in 1..Len(f.index) : f.index[i] = r][j] = NaN

\* The runs of sample g: one per entry of the completion list and manifest
\* line that assigns that run to g, in the order of the completion list.
RunsOf(g) ==
    Flatten([i \in 1..Len(done_srrs) |->
        Flatten([m \in 1..Len(manifest.rows) |->
            IF manifest.rows[m] = <<g, done_srrs[i]>> THEN <<done_srrs[i]>> ELSE <<>>])])

ValuesOf(g, c) == [k \in 1..Len(RunsOf(g)) |-> InputValue(RunsOf(g)[k], c)]

\* The scenario: completion list R1, R2, R3; R1 and R2 of S1, R3 of S2;
\* num_reads 10 and 20 for R1 and R2, no row for R3.
Scenario ==
    /\ manifest = ScenarioManifest
    /\ done_srrs = <<"R1", "R2", "R3">>
    /\ InputValue("R1", "num_reads") = 10
    /\ InputValue("R2", "num_reads") = 20
    /\ \A n \in Range(feature_dict) : "R3" \notin Range(files[n].index)

\* C2 as claimed: in grouped mode every sum feature of every sample is the
\* sum of the feature over the sample's runs that have a value, and missing
\* when none has; in the scenario the rows are S1 and S2, S1's number_reads
\* is 30 and S2's is missing.
C2_SumOrMissing ==
    (pc = "done" /\ TwoColumns) =>
        /\ \A i \in 1..Len(Out.index) : \A f \in SumFeatures :
              LET values == Present(ValuesOf(Out.index[i], f[1]))
              IN  CellAt(Out, i, f[2]) = IF values = <<>> THEN NaN ELSE SumSeq(values)
        /\ Scenario =>
              /\ Out.index = <<"S1", "S2">>
              /\ CellAt(Out, 1, "number_reads") = 30
              /\ CellAt(Out, 2, "number_reads") = NaN

\* C2, amended: in grouped mode every sum feature of every sample is the sum
\* of the feature over the sample's rows of the joined table (one per entry
\* of the completion list and manifest line assigning that run to the
\* sample) that have a value, and 0, not missing, when none has; in the
\* scenario the rows are S1 and S2, S1's number_reads is 30 and S2's is 0.
C2_SumOrZero ==
    (pc = "done" /\ TwoColumns) =>
        /\ \A i \in 1..Len(Out.index) : \A f \in SumFeatures :
              CellAt(Out, i, f[2]) = SumSeq(Present(ValuesOf(Out.index[i], f[1])))
        /\ Scenario =>
              /\ Out.index = <<"S1", "S2">>
              /\ CellAt(Out, 1, "number_reads") = 30
              /\ CellAt(Out, 2, "number_reads") = 0

\* The scenario, run to the end.
C2_Witness ==
    /\ pc = "done" /\ TwoColumns /\ Scenario
    /\ CellAt(Out, 1, "number_reads") = 30
    /\ CellAt(Out, 2, "number_reads") = 0

\* The sample IDs the manifest assigns to runs of the completion list.
SamplesDone ==
    {manifest.rows[m][1] :
        m \in {m \in 1..Len(manifest.rows) : manifest.rows[m][2] \in Range(done_srrs)}}

\* C3: on success the output has, in grouped mode, one row per distinct
\* sample ID that the manifest assigns to a run of the completion list, and,
\* in ungrouped mode, as many rows as the completion list has entries.
C3_RowCounts ==
    pc = "done" =>
        IF TwoColumns THEN Len(Out.index) = Cardinality(SamplesDone)
        ELSE Len(Out.index) = Len(done_srrs)

\* The table workflow_data is to return: the requested run IDs as index,
\* the files' columns side by side in the order of feature_dict, and in each
\* row the run's cells of each file, missing where the file lacks the run.
ExpectedColumns == Flatten([k \in 1..NTasks |-> files[feature_dict[k]].columns])
ExpectedRow(r) ==
    Flatten([k \in 1..NTasks |->
        LET f == files[feature_dict[k]]
        IN  IF r \in Range(f.index)
            THEN f.data[CHOOSE i \in 1..Len(f.index) : f.index[i] = r]
            ELSE [j \in 1..Len(f.columns) |-> NaN]])

\* C4: the index of the table workflow_data returns is the requested
\* sequence, entry by entry (repeats kept, same order); its columns are the
\* union of the sources' columns; a run of a source that is not requested is
\* in no row, and a requested run that a source lacks is missing in every
\* column of that source.
C4_ReindexedUnion ==
    pc = "join" =>
        /\ df.index = done_srrs
        /\ df.columns = ExpectedColumns
        /\ \A i \in 1..Len(done_srrs) : df.data[i] = ExpectedRow(done_srrs[i])

\* A completion list with a repeat and without some run of the files, and a
\* requested run that a file lacks.
C4_Witness ==
    /\ pc = "join"
    /\ ~IsUnique(done_srrs)
    /\ \E n \in Range(feature_dict) :
          /\ Range(files[n].index) \ Range(done_srrs) # {}
          /\ Range(done_srrs) \ Range(files[n].index) # {}

\* The steps before the write.
StepsBeforeWrite ==
    <<"read_manifest", "read_done", "pool_map", "concat", "reindex", "join",
      "reduce", IF TwoColumns THEN "aggregate" ELSE "select", "rename">>

\* An input the run must fail on: a missing manifest, completion list or
\* source file, or a catalog column that no file holds.
BrokenInput ==
    \/ IsError(manifest)
    \/ IsError(done_file)
    \/ \E n \in Range(feature_dict) : IsError(files[n])
    \/ ~(RequiredColumns \subseteq FileColumns)

\* C5: the write is the last step and starts only after every other step
\* has succeeded; a step that fails ends the run, a run in which a step
\* fails writes nothing, a run on a broken input never reaches the write,
\* and a successful run writes once.
C5_AllOrNothing ==
    /\ Len(written) <= 1
    /\ (IsError(srr_df) \/ IsError(df)) => pc = "failed"
    /\ pc = "write" => written = <<>> /\ completed = StepsBeforeWrite
    /\ pc = "done" <=> Len(written) = 1
    /\ written # <<>> => completed = StepsBeforeWrite \o <<"write">>
    /\ pc = "failed" => written = <<>>
    /\ BrokenInput => pc \notin {"write", "done"} /\ written = <<>>

\* A run that failed in the pool and wrote nothing.
C5_Witness ==
    /\ pc = "failed"
    /\ map_error = NoFile
    /\ completed = <<"read_manifest", "read_done">>
    /\ written = <<>>

\* C6: every table written has exactly the 21 public names of the catalog as
\* columns, each once; the renaming maps the 21 internal names to 21
\* distinct names; when a catalog column is in no file nothing is written.
C6_ExactlyTheCatalog ==
    /\ Cardinality(PublicNames) = 21
    /\ {FEATURE_RENAME(c) : c \in Range(FEATURE_AGG_keys)} = PublicNames
    /\ \A k \in 1..Len(written) :
          /\ Range(written[k].columns) = PublicNames
          /\ Len(written[k].columns) = 21
    /\ ~(RequiredColumns \subseteq FileColumns) => written = <<>>

\* A table written in ungrouped mode from files with other columns too.
C6_Witness ==
    /\ pc = "done" /\ ~TwoColumns
    /\ Len(Out.index) = 3
    /\ Len(Out.columns) = 21
    /\ "libsize" \in Range(files["layout"].columns)

\* C7: whatever the order in which the workers finish, pool.map's list
\* holds each file's table at the place of its task, and workflow_data
\* returns the one table determined by the files and the completion list,
\* the sources' columns in the order of feature_dict.
C7_SameTableForEveryInterleaving ==
    /\ pc = "pool_wait" =>
          \A k \in 1..NTasks :
              results[k] = Pending \/ results[k] = files[feature_dict[k]]
    /\ pc = "concat" => \A k \in 1..NTasks : results[k] = files[feature_dict[k]]
    /\ pc = "join" =>
          df = Table(done_srrs, ExpectedColumns,
                     [i \in 1..Len(done_srrs) |-> ExpectedRow(done_srrs[i])])

\* workflow_data has returned after a task finished before an earlier one.
C7_Witness == pc = "join" /\ overtaken /\ Len(df.index) = 3

\* The manifest lists a run with two different sample IDs.
Conflict ==
    /\ TwoColumns
    /\ \E m, n \in 1..Len(manifest.rows) :
          /\ manifest.rows[m][2] = manifest.rows[n][2]
          /\ manifest.rows[m][1] # manifest.rows[n][1]

\* C9: a two-column manifest that lists a run with two different sample IDs
\* makes build_features fail and write nothing.
C9_ConflictFails == Conflict => (pc # "done" /\ written = <<>>)

\* C10: a run whose 101 position values are all missing gets 0 in each of
\* the three tertile columns.  In ungrouped mode its gene_body_* outputs are
\* 0 while its other mean features stay missing; in grouped mode the tertile
\* means are taken over all of the sample's rows, that 0 included, while
\* every other mean feature is the mean of the rows that have a value.
C10_ZeroNotMissing ==
    pc = "done" =>
        \A i \in 1..Len(Out.index) :
            IF TwoColumns
            THEN LET runs == RunsOf(Out.index[i])
                     mean(names) ==
                         [sum |-> SumSeq([k \in 1..Len(runs) |->
                                             InputCoverage(runs[k], names)]),
                          count |-> Len(runs)]
                 IN  /\ CellAt(Out, i, "gene_body_five_prime") = mean(FivePrimePos)
                     /\ CellAt(Out, i, "gene_body_middle") = mean(MiddlePos)
                     /\ CellAt(Out, i, "gene_body_three_prime") = mean(ThreePrimePos)
                     /\ \A f \in MeanMetrics :
                           LET values == Present(ValuesOf(Out.index[i], f[1]))
                           IN  CellAt(Out, i, f[2]) =
                                   [sum |-> SumSeq(values), count |-> Len(values)]
            ELSE LET r == Out.index[i]
                 IN  /\ CellAt(Out, i, "gene_body_five_prime") = InputCoverage(r, FivePrimePos)
                     /\ CellAt(Out, i, "gene_body_middle") = InputCoverage(r, MiddlePos)
                     /\ CellAt(Out, i, "gene_body_three_prime") = InputCoverage(r, ThreePrimePos)
                     /\ CoverageMissing(r) =>
                           \A t \in Range(Tertiles) : CellAt(Out, i, t) = 0
                     /\ \A f \in MeanMetrics :
                           Out.data[i][CHOOSE j \in 1..Len(Out.columns) :
                                           Out.columns[j] = f[2]] = InputValue(r, f[1])

\* A sample of two runs, one without coverage and duplication values: the
\* tertile mean counts both, the duplication mean one.
C10_Witness ==
    /\ pc = "done" /\ TwoColumns
    /\ \E i \in 1..Len(Out.index) :
          /\ Len(RunsOf(Out.index[i])) = 2
          /\ \E k \in 1..2 : CoverageMissing(RunsOf(Out.index[i])[k])
          /\ CellAt(Out, i, "gene_body_five_prime").count = 2
          /\ CellAt(Out, i, "percent_duplication").count = 1

====
